---- MODULE Spec2Model ----
(***************************************************************************)
(* Model of the ARC smart pointer of src/arc.h: Arc<T> (strong handle),    *)
(* its ArcControlBlock (ref_count, shared_mutex, shared_ptr data),         *)
(* WeakArc<T> with its WeakArcControlBlock, and get_mut.  Threads run the  *)
(* operations one atomic memory access (or one lock operation) per step.   *)
(*                                                                         *)
(* Undefined behaviour is a choice over what builds do:                    *)
(*   - locking a shared_mutex the thread already owns either never returns *)
(*     ("hung") or throws std::system_error ("thrown", glibc's EDEADLK);   *)
(*   - touching a freed control block or deleting a payload twice goes on  *)
(*     with the stale memory, and the process may abort at any later point *)
(*     (Crash).                                                            *)
(***************************************************************************)
EXTENDS Integers, FiniteSets

\* ---------------------------------------------------------------- bounds
NumThreads == 2
MaxArc == 3
MaxBlock == 3
MaxPayload == 2
MaxWeak == 2
MaxWBlock == 2
MaxWCount == 3
MaxValue == 1
CrossHandles == 4

Threads == 1..NumThreads
ArcSlots == 1..MaxArc
Blocks == 1..MaxBlock
Payloads == 1..MaxPayload
WeakSlots == 1..MaxWeak
WBlocks == 1..MaxWBlock
Values == 0..MaxValue
CrossSlots == 1..CrossHandles

VARIABLES
  pc,           \* position of each thread inside the operation it runs
  op,           \* thread locals: dst/src handles, blk/oth control blocks
  arc,          \* Arc::control_block of each Arc handle (0: no such handle)
  refCount,     \* ArcControlBlock::ref_count
  freed,        \* the ArcControlBlock has been deleted
  dataPtr,      \* raw pointer that ArcControlBlock::data was built on (0: nullptr)
  useCount,     \* use_count of the shared_ptr control block behind data
  writer,       \* ArcControlBlock::mutex: the exclusive owner (0: none)
  readers,      \* ArcControlBlock::mutex: the shared owners
  nBlocks,      \* ArcControlBlocks allocated so far
  nPayloads,    \* payload objects allocated so far
  destroyCount, \* times the deleter (delete p) ran on each payload
  warc,         \* WeakArc::control_block of each WeakArc handle (0: none)
  wCount,       \* WeakArcControlBlock::ref_count
  wFreed,       \* the WeakArcControlBlock has been deleted
  wObs,         \* WeakArcControlBlock::data: the block whose data it observes
  nWBlocks,     \* WeakArcControlBlocks allocated so far
  uaf,          \* ArcControlBlocks touched after they were deleted
  crashed,      \* the process aborted
  value,        \* MyData::value of each payload object
  local         \* each thread's local: the value it wrote or read last

vars == <<pc, op, arc, refCount, freed, dataPtr, useCount, writer, readers,
          nBlocks, nPayloads, destroyCount, warc, wCount, wFreed, wObs,
          nWBlocks, uaf, crashed, value, local>>

arcVars == <<arc, refCount, freed, dataPtr, useCount, nBlocks, nPayloads,
             destroyCount, uaf>>
lockVars == <<writer, readers>>
weakVars == <<warc, wCount, wFreed, wObs, nWBlocks>>
dataVars == <<value, local>>

NoOp == [dst |-> 0, src |-> 0, blk |-> 0, oth |-> 0]

\* ------------------------------------------------- counting primitives
\* ArcControlBlock(T *ptr) : ref_count(1)
InitialCount == 1

\* a lost increment
FetchAddLost(c) == c

\* ref_count.fetch_add(1): the new value
FetchAdd(c) == c + 1

\* ref_count.fetch_sub(1): the new value
FetchSub(c) == c - 1

\* every decrement taken for the last one
WasLastAlways(old) == TRUE

\* fetch_sub(1) == 1: the decrement took the count to zero
WasLast(old) == old = 1

\* no self-assignment check
IsSelfNever(a, b) == FALSE

\* if (this != &other)
IsSelf(a, b) == a = b

\* ------------------------------------------------------ shared_mutex
\* lock(): no owner of either kind
CanLock(b) == writer[b] = 0 /\ readers[b] = {}

\* a shared lock granted whatever the owner
LockSharedUnchecked(b) == TRUE

\* lock_shared(): no exclusive owner
CanLockShared(b) == writer[b] = 0

\* ------------------------------------------------------ handle use
\* A handle object is used by one operation at a time, except that several
\* operations may read it (copy from it) together.
FreeSlot(h) == arc[h] = 0 /\ \A t \in Threads : op[t].dst # h
HasFreeSlot == \E h \in ArcSlots : FreeSlot(h)
NewSlot == CHOOSE h \in ArcSlots :
             FreeSlot(h) /\ \A g \in ArcSlots : FreeSlot(g) => h <= g
CanWrite(h) == arc[h] # 0 /\ \A t \in Threads : op[t].dst # h /\ op[t].src # h
CanRead(h) == arc[h] # 0 /\ \A t \in Threads : op[t].dst # h

FreeWSlot(w) == warc[w] = 0
HasFreeWSlot == \E w \in WeakSlots : FreeWSlot(w)
NewWSlot == CHOOSE w \in WeakSlots :
              FreeWSlot(w) /\ \A v \in WeakSlots : FreeWSlot(v) => w <= v

\* control blocks that operations in flight will still allocate
Pending == Cardinality({t \in Threads : pc[t] = "upg_ret"})
CanAllocBlock == nBlocks + Pending < MaxBlock

Idle(t) == ~crashed /\ pc[t] = "idle"
At(t, where) == ~crashed /\ pc[t] = where

\* the blocks of S that are deleted: touching them is a use after free
Touched(S) == uaf \cup {b \in S : freed[b]}

\* new MyData(42): the value a payload starts with
InitialValue == 0

\* a write that does not reach the shared object
StoreLost(val, p, v) == val

\* data->value = v, through the pointer get() returned
Store(val, p, v) == [val EXCEPT ![p] = v]

\* localArc.get()->value
Load(val, p) == val[p]

\* a deleter that does nothing
NoDeleter(p) == destroyCount

\* the deleter of the shared_ptr behind data: delete p (delete nullptr does nothing)
RunDeleter(p) ==
  IF p = 0 THEN destroyCount
  ELSE [destroyCount EXCEPT ![p] = @ + 1]

Init ==
  /\ pc = [t \in Threads |-> "idle"]
  /\ op = [t \in Threads |-> NoOp]
  /\ arc = [h \in ArcSlots |-> 0]
  /\ refCount = [b \in Blocks |-> 0]
  /\ freed = [b \in Blocks |-> FALSE]
  /\ dataPtr = [b \in Blocks |-> 0]
  /\ useCount = [b \in Blocks |-> 0]
  /\ writer = [b \in Blocks |-> 0]
  /\ readers = [b \in Blocks |-> {}]
  /\ nBlocks = 0
  /\ nPayloads = 0
  /\ destroyCount = [p \in Payloads |-> 0]
  /\ warc = [w \in WeakSlots |-> 0]
  /\ wCount = [b \in WBlocks |-> 0]
  /\ wFreed = [b \in WBlocks |-> FALSE]
  /\ wObs = [b \in WBlocks |-> 0]
  /\ nWBlocks = 0
  /\ uaf = {}
  /\ crashed = FALSE
  /\ value = [p \in Payloads |-> InitialValue]
  /\ local = [t \in Threads |-> InitialValue]

\* ------------------------------------------------------------- Arc
\* explicit Arc(T *ptr) on a new object
Construct(t) ==
  /\ Idle(t)
  /\ HasFreeSlot
  /\ CanAllocBlock
  /\ nPayloads < MaxPayload
  /\ LET b == nBlocks + 1
         p == nPayloads + 1
     IN /\ arc' = [arc EXCEPT ![NewSlot] = b]
        /\ refCount' = [refCount EXCEPT ![b] = InitialCount]
        /\ dataPtr' = [dataPtr EXCEPT ![b] = p]
        /\ useCount' = [useCount EXCEPT ![b] = 1]
        /\ nBlocks' = b
        /\ nPayloads' = p
        /\ value' = [value EXCEPT ![p] = InitialValue]
  /\ UNCHANGED <<pc, op, freed, destroyCount, uaf, crashed, local>>
  /\ UNCHANGED lockVars
  /\ UNCHANGED weakVars

\* Arc(const Arc &other)
Copy(t, src) ==
  /\ Idle(t)
  /\ CanRead(src)
  /\ HasFreeSlot
  /\ LET b == arc[src]
     IN /\ arc' = [arc EXCEPT ![NewSlot] = b]
        /\ refCount' = [refCount EXCEPT ![b] = FetchAdd(@)]
        /\ uaf' = Touched({b})
  /\ UNCHANGED <<pc, op, freed, dataPtr, useCount, nBlocks, nPayloads,
                 destroyCount, crashed>>
  /\ UNCHANGED lockVars
  /\ UNCHANGED weakVars
  /\ UNCHANGED dataVars

\* clone(): std::shared_lock lock(control_block->mutex)
CloneLock(t, src) ==
  /\ Idle(t)
  /\ CanRead(src)
  /\ HasFreeSlot
  /\ CanLockShared(arc[src])
  /\ readers' = [readers EXCEPT ![arc[src]] = @ \cup {t}]
  /\ pc' = [pc EXCEPT ![t] = "clone_copy"]
  /\ op' = [op EXCEPT ![t] = [dst |-> NewSlot, src |-> src,
                              blk |-> arc[src], oth |-> 0]]
  /\ uaf' = Touched({arc[src]})
  /\ UNCHANGED <<arc, refCount, freed, dataPtr, useCount, nBlocks, nPayloads,
                 destroyCount, writer, crashed>>
  /\ UNCHANGED weakVars
  /\ UNCHANGED dataVars

\* clone(): return Arc(*this)
CloneCopy(t) ==
  /\ At(t, "clone_copy")
  /\ LET b == arc[op[t].src]
     IN /\ arc' = [arc EXCEPT ![op[t].dst] = b]
        /\ refCount' = [refCount EXCEPT ![b] = FetchAdd(@)]
        /\ uaf' = Touched({b})
  /\ pc' = [pc EXCEPT ![t] = "clone_unlock"]
  /\ UNCHANGED <<op, freed, dataPtr, useCount, nBlocks, nPayloads,
                 destroyCount, crashed>>
  /\ UNCHANGED lockVars
  /\ UNCHANGED weakVars
  /\ UNCHANGED dataVars

\* clone(): the shared_lock goes out of scope
CloneUnlock(t) ==
  /\ At(t, "clone_unlock")
  /\ readers' = [readers EXCEPT ![op[t].blk] = @ \ {t}]
  /\ pc' = [pc EXCEPT ![t] = "idle"]
  /\ op' = [op EXCEPT ![t] = NoOp]
  /\ uaf' = Touched({op[t].blk})
  /\ UNCHANGED <<arc, refCount, freed, dataPtr, useCount, nBlocks, nPayloads,
                 destroyCount, writer, crashed>>
  /\ UNCHANGED weakVars
  /\ UNCHANGED dataVars

\* ~Arc(): release(), the fetch_sub
Destroy(t, h) ==
  /\ Idle(t)
  /\ CanWrite(h)
  /\ LET b == arc[h]
     IN /\ refCount' = [refCount EXCEPT ![b] = FetchSub(@)]
        /\ uaf' = Touched({b})
        /\ IF WasLast(refCount[b])
           THEN /\ pc' = [pc EXCEPT ![t] = "rel_lock"]
                /\ op' = [op EXCEPT ![t] = [dst |-> h, src |-> 0,
                                            blk |-> b, oth |-> 0]]
                /\ arc' = arc
           ELSE /\ arc' = [arc EXCEPT ![h] = 0]
                /\ UNCHANGED <<pc, op>>
  /\ UNCHANGED <<freed, dataPtr, useCount, nBlocks, nPayloads, destroyCount,
                 crashed>>
  /\ UNCHANGED lockVars
  /\ UNCHANGED weakVars
  /\ UNCHANGED dataVars

\* release(): std::lock_guard lock(control_block->mutex)
RelLock(t) ==
  /\ At(t, "rel_lock")
  /\ CanLock(op[t].blk)
  /\ writer' = [writer EXCEPT ![op[t].blk] = t]
  /\ pc' = [pc EXCEPT ![t] = "rel_check"]
  /\ uaf' = Touched({op[t].blk})
  /\ UNCHANGED <<op, arc, refCount, freed, dataPtr, useCount, nBlocks,
                 nPayloads, destroyCount, readers, crashed>>
  /\ UNCHANGED weakVars
  /\ UNCHANGED dataVars

\* release(): the re-check, data.reset(), delete control_block, and the
\* lock_guard's unlock (of the deleted block's mutex when it was deleted)
RelCheck(t) ==
  /\ At(t, "rel_check")
  /\ LET b == op[t].blk
         p == dataPtr[b]
     IN /\ IF refCount[b] = 0
           THEN /\ freed' = [freed EXCEPT ![b] = TRUE]
                /\ uaf' = uaf \cup {b}
                /\ IF freed[b]
                   THEN UNCHANGED <<useCount, destroyCount>>
                   ELSE /\ useCount' = [useCount EXCEPT ![b] = @ - 1]
                        /\ destroyCount' = IF useCount[b] = 1
                                           THEN RunDeleter(p)
                                           ELSE destroyCount
           ELSE /\ uaf' = Touched({b})
                /\ UNCHANGED <<freed, useCount, destroyCount>>
        /\ writer' = [writer EXCEPT ![b] = 0]
  /\ arc' = [arc EXCEPT ![op[t].dst] = 0]
  /\ pc' = [pc EXCEPT ![t] = "idle"]
  /\ op' = [op EXCEPT ![t] = NoOp]
  /\ UNCHANGED <<refCount, dataPtr, nBlocks, nPayloads, readers, crashed>>
  /\ UNCHANGED weakVars
  /\ UNCHANGED dataVars

\* operator=(const Arc &other): the call, with this and &other
AssignCall(t, a, b) ==
  /\ Idle(t)
  /\ CanWrite(a)
  /\ b = a \/ CanRead(b)
  /\ pc' = [pc EXCEPT ![t] = "asg_check"]
  /\ op' = [op EXCEPT ![t] = [dst |-> a, src |-> b, blk |-> 0, oth |-> 0]]
  /\ UNCHANGED crashed
  /\ UNCHANGED arcVars
  /\ UNCHANGED lockVars
  /\ UNCHANGED weakVars
  /\ UNCHANGED dataVars

\* operator=: this == &other, return *this
AssignSelf(t) ==
  /\ At(t, "asg_check")
  /\ IsSelf(op[t].dst, op[t].src)
  /\ pc' = [pc EXCEPT ![t] = "idle"]
  /\ op' = [op EXCEPT ![t] = NoOp]
  /\ UNCHANGED crashed
  /\ UNCHANGED arcVars
  /\ UNCHANGED lockVars
  /\ UNCHANGED weakVars
  /\ UNCHANGED dataVars

\* operator=: std::lock(control_block->mutex, other.control_block->mutex)
\* and the two adopting lock_guards, on two different mutexes
AssignLock(t) ==
  /\ At(t, "asg_check")
  /\ ~IsSelf(op[t].dst, op[t].src)
  /\ LET x == arc[op[t].dst]
         y == arc[op[t].src]
     IN /\ x # y
        /\ CanLock(x)
        /\ CanLock(y)
        /\ writer' = [writer EXCEPT ![x] = t, ![y] = t]
        /\ op' = [op EXCEPT ![t].blk = x, ![t].oth = y]
        /\ uaf' = Touched({x, y})
  /\ pc' = [pc EXCEPT ![t] = "asg_release"]
  /\ UNCHANGED <<arc, refCount, freed, dataPtr, useCount, nBlocks, nPayloads,
                 destroyCount, readers, crashed>>
  /\ UNCHANGED weakVars
  /\ UNCHANGED dataVars

\* operator=: std::lock on one mutex given twice (both handles on one block):
\* undefined; it spins for ever or the second lock() throws
AssignLockSame(t) ==
  /\ At(t, "asg_check")
  /\ ~IsSelf(op[t].dst, op[t].src)
  /\ arc[op[t].dst] = arc[op[t].src]
  /\ \E outcome \in {"hung", "thrown"} :
       pc' = [pc EXCEPT ![t] = outcome]
  /\ uaf' = Touched({arc[op[t].dst]})
  /\ UNCHANGED <<op, arc, refCount, freed, dataPtr, useCount, nBlocks,
                 nPayloads, destroyCount, crashed>>
  /\ UNCHANGED lockVars
  /\ UNCHANGED weakVars
  /\ UNCHANGED dataVars

\* operator=: release() with both mutexes held.  When the fetch_sub took the
\* count to zero, release() locks control_block->mutex, which this thread
\* owns: undefined; the thread blocks for ever (holding both mutexes) or
\* lock() throws and the two lock_guards unlock while unwinding
AssignRelease(t) ==
  /\ At(t, "asg_release")
  /\ LET x == op[t].blk
         y == op[t].oth
     IN /\ refCount' = [refCount EXCEPT ![x] = FetchSub(@)]
        /\ uaf' = Touched({x})
        /\ IF WasLast(refCount[x])
           THEN \E outcome \in {"hung", "thrown"} :
                  /\ pc' = [pc EXCEPT ![t] = outcome]
                  /\ writer' = IF outcome = "thrown"
                               THEN [writer EXCEPT ![x] = 0, ![y] = 0]
                               ELSE writer
           ELSE /\ pc' = [pc EXCEPT ![t] = "asg_adopt"]
                /\ writer' = writer
  /\ UNCHANGED <<op, arc, freed, dataPtr, useCount, nBlocks, nPayloads,
                 destroyCount, readers, crashed>>
  /\ UNCHANGED weakVars
  /\ UNCHANGED dataVars

\* operator=: control_block = other.control_block; ref_count.fetch_add(1)
AssignAdopt(t) ==
  /\ At(t, "asg_adopt")
  /\ LET y == arc[op[t].src]
     IN /\ arc' = [arc EXCEPT ![op[t].dst] = y]
        /\ refCount' = [refCount EXCEPT ![y] = FetchAdd(@)]
        /\ uaf' = Touched({y})
  /\ pc' = [pc EXCEPT ![t] = "asg_unlock"]
  /\ UNCHANGED <<op, freed, dataPtr, useCount, nBlocks, nPayloads,
                 destroyCount, crashed>>
  /\ UNCHANGED lockVars
  /\ UNCHANGED weakVars
  /\ UNCHANGED dataVars

\* operator=: other_lock and self_lock go out of scope
AssignUnlock(t) ==
  /\ At(t, "asg_unlock")
  /\ writer' = [writer EXCEPT ![op[t].blk] = 0, ![op[t].oth] = 0]
  /\ uaf' = Touched({op[t].blk, op[t].oth})
  /\ pc' = [pc EXCEPT ![t] = "idle"]
  /\ op' = [op EXCEPT ![t] = NoOp]
  /\ UNCHANGED <<arc, refCount, freed, dataPtr, useCount, nBlocks, nPayloads,
                 destroyCount, readers, crashed>>
  /\ UNCHANGED weakVars
  /\ UNCHANGED dataVars

\* the caller catches the std::system_error of a lock() and goes on
Catch(t) ==
  /\ At(t, "thrown")
  /\ pc' = [pc EXCEPT ![t] = "idle"]
  /\ op' = [op EXCEPT ![t] = NoOp]
  /\ UNCHANGED crashed
  /\ UNCHANGED arcVars
  /\ UNCHANGED lockVars
  /\ UNCHANGED weakVars
  /\ UNCHANGED dataVars

\* ------------------------------------------------- get_mut and readers
\* get_mut(arc): std::lock_guard lock(*arc.mutex())
GetMutLock(t, h) ==
  /\ Idle(t)
  /\ CanRead(h)
  /\ CanLock(arc[h])
  /\ writer' = [writer EXCEPT ![arc[h]] = t]
  /\ pc' = [pc EXCEPT ![t] = "gm_locked"]
  /\ op' = [op EXCEPT ![t] = [dst |-> 0, src |-> h, blk |-> arc[h], oth |-> 0]]
  /\ uaf' = Touched({arc[h]})
  /\ UNCHANGED <<arc, refCount, freed, dataPtr, useCount, nBlocks, nPayloads,
                 destroyCount, readers, crashed>>
  /\ UNCHANGED weakVars
  /\ UNCHANGED dataVars

\* get_mut(arc): return arc.get(); the lock_guard goes out of scope, and the
\* caller starts writing through the pointer (data->value = 99)
GetMutReturn(t) ==
  /\ At(t, "gm_locked")
  /\ writer' = [writer EXCEPT ![op[t].blk] = 0]
  /\ pc' = [pc EXCEPT ![t] = "writing"]
  /\ uaf' = Touched({op[t].blk})
  /\ UNCHANGED <<op, arc, refCount, freed, dataPtr, useCount, nBlocks,
                 nPayloads, destroyCount, readers, crashed>>
  /\ UNCHANGED weakVars
  /\ UNCHANGED dataVars

\* the caller's write through the pointer: data->value = v
WriteEnd(t) ==
  /\ At(t, "writing")
  /\ \E v \in Values :
       /\ value' = Store(value, dataPtr[op[t].blk], v)
       /\ local' = [local EXCEPT ![t] = v]
  /\ pc' = [pc EXCEPT ![t] = "idle"]
  /\ op' = [op EXCEPT ![t] = NoOp]
  /\ UNCHANGED crashed
  /\ UNCHANGED arcVars
  /\ UNCHANGED lockVars
  /\ UNCHANGED weakVars

\* a reader: std::shared_lock lock(*localArc.mutex()), then reads get()->value
ReadLock(t, h) ==
  /\ Idle(t)
  /\ CanRead(h)
  /\ CanLockShared(arc[h])
  /\ readers' = [readers EXCEPT ![arc[h]] = @ \cup {t}]
  /\ pc' = [pc EXCEPT ![t] = "reading"]
  /\ op' = [op EXCEPT ![t] = [dst |-> 0, src |-> h, blk |-> arc[h], oth |-> 0]]
  /\ uaf' = Touched({arc[h]})
  /\ UNCHANGED <<arc, refCount, freed, dataPtr, useCount, nBlocks, nPayloads,
                 destroyCount, writer, crashed>>
  /\ UNCHANGED weakVars
  /\ UNCHANGED dataVars

\* the reader reads get()->value, and its shared_lock goes out of scope
ReadUnlock(t) ==
  /\ At(t, "reading")
  /\ local' = [local EXCEPT ![t] = Load(value, dataPtr[arc[op[t].src]])]
  /\ UNCHANGED value
  /\ readers' = [readers EXCEPT ![op[t].blk] = @ \ {t}]
  /\ pc' = [pc EXCEPT ![t] = "idle"]
  /\ op' = [op EXCEPT ![t] = NoOp]
  /\ uaf' = Touched({op[t].blk})
  /\ UNCHANGED <<arc, refCount, freed, dataPtr, useCount, nBlocks, nPayloads,
                 destroyCount, writer, crashed>>
  /\ UNCHANGED weakVars

\* --------------------------------------------------------- WeakArc
\* explicit WeakArc(Arc<T> &arc): ref_count(1), data(arc.control_block->data)
\* (a weak_ptr made from the empty data of a deleted block observes nothing)
WConstruct(t, h) ==
  /\ Idle(t)
  /\ CanRead(h)
  /\ HasFreeWSlot
  /\ nWBlocks < MaxWBlock
  /\ LET wb == nWBlocks + 1
     IN /\ warc' = [warc EXCEPT ![NewWSlot] = wb]
        /\ wCount' = [wCount EXCEPT ![wb] = InitialCount]
        /\ wObs' = [wObs EXCEPT ![wb] = IF freed[arc[h]] THEN 0 ELSE arc[h]]
        /\ nWBlocks' = wb
  /\ uaf' = Touched({arc[h]})
  /\ UNCHANGED <<pc, op, arc, refCount, freed, dataPtr, useCount, nBlocks,
                 nPayloads, destroyCount, wFreed, crashed>>
  /\ UNCHANGED lockVars
  /\ UNCHANGED dataVars

\* WeakArc(const WeakArc &other)
WCopy(t, v) ==
  /\ Idle(t)
  /\ warc[v] # 0
  /\ HasFreeWSlot
  /\ warc' = [warc EXCEPT ![NewWSlot] = warc[v]]
  /\ wCount' = [wCount EXCEPT ![warc[v]] = FetchAdd(@)]
  /\ UNCHANGED <<pc, op, wFreed, wObs, nWBlocks, crashed>>
  /\ UNCHANGED arcVars
  /\ UNCHANGED lockVars
  /\ UNCHANGED dataVars

\* WeakArc::operator=(const WeakArc &other): the block this handle held is
\* left as it is
WAssign(t, w, v) ==
  /\ Idle(t)
  /\ warc[w] # 0
  /\ warc[v] # 0
  /\ wCount[warc[v]] < MaxWCount
  /\ IF IsSelf(w, v)
     THEN UNCHANGED <<warc, wCount>>
     ELSE /\ warc' = [warc EXCEPT ![w] = warc[v]]
          /\ wCount' = [wCount EXCEPT ![warc[v]] = FetchAdd(@)]
  /\ UNCHANGED <<pc, op, wFreed, wObs, nWBlocks, crashed>>
  /\ UNCHANGED arcVars
  /\ UNCHANGED lockVars
  /\ UNCHANGED dataVars

\* ~WeakArc(): release()
WDestroy(t, w) ==
  /\ Idle(t)
  /\ warc[w] # 0
  /\ LET wb == warc[w]
     IN /\ wCount' = [wCount EXCEPT ![wb] = FetchSub(@)]
        /\ wFreed' = [wFreed EXCEPT ![wb] = @ \/ WasLast(wCount[wb])]
  /\ warc' = [warc EXCEPT ![w] = 0]
  /\ UNCHANGED <<pc, op, wObs, nWBlocks, crashed>>
  /\ UNCHANGED arcVars
  /\ UNCHANGED lockVars
  /\ UNCHANGED dataVars

\* upgrade(): shared_ptr = control_block->data.lock()
\* (weak_ptr::lock: one atomic step, use_count + 1 unless it is 0)
UpgradeLock(t, w) ==
  /\ Idle(t)
  /\ warc[w] # 0
  /\ HasFreeSlot
  /\ CanAllocBlock
  /\ LET o == wObs[warc[w]]
         got == o # 0 /\ useCount[o] > 0
     IN /\ useCount' = IF got THEN [useCount EXCEPT ![o] = @ + 1] ELSE useCount
        /\ op' = [op EXCEPT ![t] = [dst |-> NewSlot, src |-> 0, blk |-> o,
                                    oth |-> IF got THEN o ELSE 0]]
  /\ pc' = [pc EXCEPT ![t] = "upg_ret"]
  /\ UNCHANGED <<arc, refCount, freed, dataPtr, nBlocks, nPayloads,
                 destroyCount, uaf, crashed>>
  /\ UNCHANGED lockVars
  /\ UNCHANGED weakVars
  /\ UNCHANGED dataVars

\* upgrade(): return Arc<T>(shared_ptr.get()) or Arc<T>(nullptr): a new
\* ArcControlBlock whose data is a new shared_ptr built on the raw pointer;
\* then the local shared_ptr goes out of scope
UpgradeReturn(t) ==
  /\ At(t, "upg_ret")
  /\ LET o == op[t].oth
         p == IF o = 0 THEN 0 ELSE dataPtr[o]
         nb == nBlocks + 1
     IN /\ arc' = [arc EXCEPT ![op[t].dst] = nb]
        /\ refCount' = [refCount EXCEPT ![nb] = InitialCount]
        /\ dataPtr' = [dataPtr EXCEPT ![nb] = p]
        /\ nBlocks' = nb
        /\ useCount' = IF o = 0
                       THEN [useCount EXCEPT ![nb] = 1]
                       ELSE [useCount EXCEPT ![nb] = 1, ![o] = @ - 1]
        /\ destroyCount' = IF o # 0 /\ useCount[o] = 1
                           THEN RunDeleter(p)
                           ELSE destroyCount
  /\ pc' = [pc EXCEPT ![t] = "idle"]
  /\ op' = [op EXCEPT ![t] = NoOp]
  /\ UNCHANGED <<freed, nPayloads, uaf, crashed>>
  /\ UNCHANGED lockVars
  /\ UNCHANGED weakVars
  /\ UNCHANGED dataVars

\* the process aborts some time after undefined behaviour
UB == uaf # {} \/ \E p \in Payloads : destroyCount[p] > 1

Crash ==
  /\ ~crashed
  /\ UB
  /\ crashed' = TRUE
  /\ UNCHANGED <<pc, op>>
  /\ UNCHANGED arcVars
  /\ UNCHANGED lockVars
  /\ UNCHANGED weakVars
  /\ UNCHANGED dataVars

\* ------------------------------------------------------ specifications
StrongStep(t) ==
  \/ Construct(t)
  \/ \E h \in ArcSlots : Copy(t, h)
  \/ \E h \in ArcSlots : Destroy(t, h)
  \/ RelLock(t)
  \/ RelCheck(t)

CloneStep(t) ==
  \/ \E h \in ArcSlots : CloneLock(t, h)
  \/ CloneCopy(t)
  \/ CloneUnlock(t)

AssignStep(t) ==
  \/ \E a, b \in ArcSlots : AssignCall(t, a, b)
  \/ AssignSelf(t)
  \/ AssignLock(t)
  \/ AssignLockSame(t)
  \/ AssignRelease(t)
  \/ AssignAdopt(t)
  \/ AssignUnlock(t)
  \/ Catch(t)

AccessStep(t) ==
  \/ \E h \in ArcSlots : GetMutLock(t, h)
  \/ GetMutReturn(t)
  \/ WriteEnd(t)
  \/ \E h \in ArcSlots : ReadLock(t, h)
  \/ ReadUnlock(t)

WeakStep(t) ==
  \/ \E h \in ArcSlots : WConstruct(t, h)
  \/ \E v \in WeakSlots : WCopy(t, v)
  \/ \E w, v \in WeakSlots : WAssign(t, w, v)
  \/ \E w \in WeakSlots : WDestroy(t, w)
  \/ \E w \in WeakSlots : UpgradeLock(t, w)
  \/ UpgradeReturn(t)

Next ==
  \/ \E t \in Threads :
       \/ StrongStep(t)
       \/ CloneStep(t)
       \/ AssignStep(t)
       \/ AccessStep(t)
       \/ WeakStep(t)
  \/ Crash

Spec == Init /\ [][Next]_vars

\* Construct, Copy, Assign and Destroy on Arc handles
NextStrong ==
  \/ \E t \in Threads :
       \/ StrongStep(t)
       \/ AssignStep(t)
  \/ Crash

SpecStrong == Init /\ [][NextStrong]_vars

\* Construct, Clone and Destroy on Arc handles
NextClone ==
  \/ \E t \in Threads :
       \/ Construct(t)
       \/ CloneStep(t)
       \/ \E h \in ArcSlots : Destroy(t, h)
       \/ RelLock(t)
       \/ RelCheck(t)
  \/ Crash

SpecClone == Init /\ [][NextClone]_vars

\* Arc handles with get_mut and readers
NextAccess ==
  \/ \E t \in Threads :
       \/ StrongStep(t)
       \/ AccessStep(t)
  \/ Crash

SpecAccess == Init /\ [][NextAccess]_vars

\* Arc handles with WeakArc handles
NextWeak ==
  \/ \E t \in Threads :
       \/ StrongStep(t)
       \/ WeakStep(t)
  \/ Crash

SpecWeak == Init /\ [][NextWeak]_vars

\* a program of one thread that derives one WeakArc: Arc handles with
\* assignment, and upgrade
SeqThreads == {t \in Threads : \A u \in Threads : t <= u}

\* explicit WeakArc(Arc<T> &arc), the first one of the program
WConstructFirst(t, h) ==
  /\ nWBlocks = 0
  /\ WConstruct(t, h)

NextUpgrade ==
  \/ \E t \in SeqThreads :
       \/ StrongStep(t)
       \/ AssignStep(t)
       \/ \E h \in ArcSlots : WConstructFirst(t, h)
       \/ \E w \in WeakSlots : UpgradeLock(t, w)
       \/ UpgradeReturn(t)
  \/ Crash

SpecUpgrade == Init /\ [][NextUpgrade]_vars

\* ------------------------------------------------------------- claims
\* an Arc handle that exists and is not inside its destructor
ArcLive(h) ==
  /\ arc[h] # 0
  /\ \A t \in Threads : ~(op[t].dst = h /\ pc[t] \in {"rel_lock", "rel_check"})

HandlesOn(b) == {h \in ArcSlots : ArcLive(h) /\ arc[h] = b}

\* the Arc handles, live or inside their destructor, whose get() is p
StrongFor(p) == {h \in ArcSlots : arc[h] # 0 /\ dataPtr[arc[h]] = p}

Quiescent == \A t \in Threads : pc[t] = "idle"

\* C1: over Construct, Copy, Assign and Destroy on Arc handles, the payload
\* of a control block is destroyed at most once, never while a handle still
\* references the block, and once: when no operation is in flight and no
\* handle references the block, its payload has been destroyed.
C1_DestroyedOnceAfterLast ==
  \A b \in Blocks :
    (b <= nBlocks /\ dataPtr[b] # 0) =>
      LET p == dataPtr[b]
      IN /\ destroyCount[p] <= 1
         /\ destroyCount[p] = 1 => HandlesOn(b) = {}
         /\ (Quiescent /\ HandlesOn(b) = {}) => destroyCount[p] = 1

\* C2: with WeakArc and upgrade among the operations, no payload is
\* destroyed twice.
C2_DestroyedAtMostOnce ==
  \A p \in Payloads : destroyCount[p] <= 1

\* C3: no live non-empty Arc handle refers to a payload that has been
\* destroyed.
C3_LiveRefKeepsPayload ==
  \A h \in ArcSlots :
    (ArcLive(h) /\ dataPtr[arc[h]] # 0) => destroyCount[dataPtr[arc[h]]] = 0

\* C4: under concurrent clone() and destruction, every clone is a handle on
\* the block it was cloned from, ref_count equals the number of live handles
\* (no increment is lost), and the payload is destroyed exactly once, after
\* the last handle: never twice, never while a handle is live, and always
\* when all handles are gone and no operation is in flight.
C4_ConcurrentClone ==
  /\ \A t \in Threads :
       pc[t] = "clone_unlock" =>
         /\ arc[op[t].dst] = op[t].blk
         /\ arc[op[t].src] = op[t].blk
  /\ \A b \in Blocks :
       b <= nBlocks =>
         LET p == dataPtr[b]
         IN /\ refCount[b] = Cardinality(HandlesOn(b))
            /\ destroyCount[p] <= 1
            /\ freed[b] <=> destroyCount[p] = 1
            /\ freed[b] => HandlesOn(b) = {}
            /\ (Quiescent /\ HandlesOn(b) = {}) => freed[b]

\* two threads have both cloned handles of one block and are still inside
\* clone(): the count is the original plus the two clones
C4_Witness ==
  \E t1, t2 \in Threads :
    /\ t1 # t2
    /\ pc[t1] = "clone_unlock"
    /\ pc[t2] = "clone_unlock"
    /\ op[t1].blk = op[t2].blk
    /\ refCount[op[t1].blk] = 3

\* C5: while a thread writes through the pointer get_mut gave it, no other
\* thread writes through a pointer get_mut gave it on the same control block,
\* and no thread reads that block's payload under the shared lock.
C5_ExclusiveWhileWriting ==
  \A t1, t2 \in Threads :
    (t1 # t2 /\ pc[t1] = "writing" /\ op[t2].blk = op[t1].blk) =>
      pc[t2] \notin {"writing", "reading"}

\* C6: an upgrade() called when every Arc handle with the payload the
\* WeakArc observes has been destroyed (and no other upgrade() is in flight)
\* takes the empty branch, and the Arc it returns has get() == nullptr.
C6_UpgradeAfterAllGone ==
  [][\A t \in Threads :
       /\ (/\ pc[t] = "idle"
           /\ pc'[t] = "upg_ret"
           /\ op'[t].blk # 0
           /\ dataPtr[op'[t].blk] # 0
           /\ StrongFor(dataPtr[op'[t].blk]) = {}
           /\ \A u \in Threads : pc[u] # "upg_ret")
          => op'[t].oth = 0
       /\ (pc[t] = "upg_ret" /\ pc'[t] = "idle" /\ op[t].oth = 0)
          => dataPtr'[arc'[op[t].dst]] = 0]_vars

\* C7: an upgrade() called while a live Arc handle references the control
\* block the WeakArc was derived from takes the non-empty branch, and the Arc
\* it returns has the get() of that block.
C7_UpgradeWhileAlive ==
  [][\A t \in Threads :
       /\ (/\ pc[t] = "idle"
           /\ pc'[t] = "upg_ret"
           /\ op'[t].blk # 0
           /\ dataPtr[op'[t].blk] # 0
           /\ HandlesOn(op'[t].blk) # {})
          => op'[t].oth = op'[t].blk
       /\ (pc[t] = "upg_ret" /\ pc'[t] = "idle" /\ op[t].oth # 0)
          => dataPtr'[arc'[op[t].dst]] = dataPtr[op[t].oth]]_vars

\* C8: a = b on handles of two different control blocks X and Y goes through:
\* release() takes one off X's count, destroys X's payload (once) exactly
\* when a was the last handle on X, and goes on; then a references Y and Y's
\* count is one more; and on return both mutexes are unlocked.
C8_AssignAcrossBlocks ==
  [][\A t \in Threads :
       LET x == op[t].blk
           y == op[t].oth
       IN /\ (pc[t] = "asg_release" /\ pc'[t] # "asg_release") =>
               /\ pc'[t] = "asg_adopt"
               /\ refCount'[x] = refCount[x] - 1
               /\ dataPtr[x] # 0 =>
                    ((refCount[x] = 1) <=>
                       /\ destroyCount[dataPtr[x]] = 0
                       /\ destroyCount'[dataPtr[x]] = 1)
          /\ (pc[t] = "asg_adopt" /\ pc'[t] # "asg_adopt") =>
               /\ arc'[op[t].dst] = y
               /\ refCount'[y] = refCount[y] + 1
          /\ (pc[t] = "asg_unlock" /\ pc'[t] # "asg_unlock") =>
               /\ pc'[t] = "idle"
               /\ writer'[x] = 0
               /\ writer'[y] = 0]_vars

C10_WeakCountMatches ==
  \A wb \in WBlocks :
    wb <= nWBlocks =>
      LET n == Cardinality({w \in WeakSlots : warc[w] = wb})
      IN /\ wFreed[wb] <=> n = 0
         /\ ~wFreed[wb] => wCount[wb] = n

\* Arc handles with copy, clone, get_mut and readers
NextShare ==
  \/ \E t \in Threads :
       \/ StrongStep(t)
       \/ CloneStep(t)
       \/ AccessStep(t)
  \/ Crash

SpecShare == Init /\ [][NextShare]_vars

\* Two threads that have each just called operator= on handles of two control
\* blocks X and Y: thread 1 runs a = b, thread 2 runs c = d, with a and d on
\* X, b and c on Y (further handles are on either block).
InitCross ==
  \E place \in [CrossSlots -> {1, 2}] :
    \E a, b, c, d \in CrossSlots :
      /\ place[a] = place[d]
      /\ place[b] = place[c]
      /\ place[a] # place[b]
      /\ a # d
      /\ b # c
      /\ pc = [t \in Threads |-> IF t \in {1, 2} THEN "asg_check" ELSE "idle"]
      /\ op = [t \in Threads |->
                 IF t = 1 THEN [dst |-> a, src |-> b, blk |-> 0, oth |-> 0]
                 ELSE IF t = 2 THEN [dst |-> c, src |-> d, blk |-> 0, oth |-> 0]
                 ELSE NoOp]
      /\ arc = place
      /\ refCount = [x \in Blocks |->
                       Cardinality({h \in CrossSlots : place[h] = x})]
      /\ freed = [x \in Blocks |-> FALSE]
      /\ dataPtr = [x \in Blocks |-> IF x \in {1, 2} THEN x ELSE 0]
      /\ useCount = [x \in Blocks |-> IF x \in {1, 2} THEN 1 ELSE 0]
      /\ writer = [x \in Blocks |-> 0]
      /\ readers = [x \in Blocks |-> {}]
      /\ nBlocks = 2
      /\ nPayloads = 2
      /\ destroyCount = [p \in Payloads |-> 0]
      /\ warc = [w \in WeakSlots |-> 0]
      /\ wCount = [x \in WBlocks |-> 0]
      /\ wFreed = [x \in WBlocks |-> FALSE]
      /\ wObs = [x \in WBlocks |-> 0]
      /\ nWBlocks = 0
      /\ uaf = {}
      /\ crashed = FALSE
      /\ value = [p \in Payloads |-> InitialValue]
      /\ local = [t \in Threads |-> InitialValue]

\* the steps of operator= past the self check, on two different blocks
CrossStep(t) ==
  \/ AssignLock(t)
  \/ AssignRelease(t)
  \/ AssignAdopt(t)
  \/ AssignUnlock(t)

NextCross == \E t \in Threads : CrossStep(t)

\* every thread that can take a step of its operator= eventually takes one
\* (std::lock retries until it has both mutexes)
SpecCross ==
  /\ InitCross
  /\ [][NextCross]_vars
  /\ \A t \in Threads : WF_vars(CrossStep(t))

\* the control block of an Arc made from nullptr
EmptyBlock(b) == b # 0 /\ b <= nBlocks /\ dataPtr[b] = 0

\* the control blocks the operation thread t runs is working on
OpBlocks(t) ==
  ({arc[h] : h \in {op[t].dst, op[t].src} \cap ArcSlots}
     \cup {op[t].blk, op[t].oth}) \ {0}

\* C11: the Arc that upgrade() returns on its empty branch has get() ==
\* nullptr, and no step of an operation on such an Arc (copy, assignment from
\* or to it, destruction) ends in a blocked or throwing lock() or runs a
\* payload's deleter.
C11_EmptyArcNullSafe ==
  [][\A t \in Threads :
       /\ (pc[t] = "upg_ret" /\ pc'[t] = "idle" /\ op[t].oth = 0)
          => /\ arc'[op[t].dst] # 0
             /\ dataPtr'[arc'[op[t].dst]] = 0
       /\ (pc'[t] # pc[t] /\ \E b \in OpBlocks(t) : EmptyBlock(b))
          => /\ pc'[t] \notin {"hung", "thrown"}
             /\ destroyCount' = destroyCount]_vars

\* C12: a handle made by copy or clone is a handle on the control block of
\* the handle it was made from, with the same non-null get(); a value
\* written through the pointer get_mut returned for one handle is the value
\* of the object every handle on that block returns from get(); and a reader
\* under the shared lock reads the value of the object its handle's get()
\* returns.
C12_SharedPayload ==
  [][/\ \A h \in ArcSlots :
          (arc[h] = 0 /\ arc'[h] # 0 /\ nBlocks' = nBlocks) =>
            /\ \E g \in ArcSlots : ArcLive(g) /\ arc[g] = arc'[h]
            /\ refCount'[arc'[h]] = refCount[arc'[h]] + 1
            /\ dataPtr'[arc'[h]] # 0
     /\ \A t \in Threads :
          /\ (pc[t] = "clone_copy" /\ pc'[t] = "clone_unlock") =>
               /\ arc'[op[t].dst] = arc[op[t].src]
               /\ dataPtr'[arc'[op[t].dst]] = dataPtr[arc[op[t].src]]
          /\ (pc[t] = "writing" /\ pc'[t] = "idle") =>
               \A g \in ArcSlots :
                 (arc[g] = arc[op[t].src]) =>
                   value'[dataPtr'[arc'[g]]] = local'[t]
          /\ (pc[t] = "reading" /\ pc'[t] = "idle") =>
               local'[t] = value[dataPtr[arc[op[t].src]]]]_vars

\* a value other than the initial one was written through one handle, and a
\* thread is reading, under the shared lock, through another handle of the
\* same control block
C12_Witness ==
  \E t \in Threads :
    /\ pc[t] = "reading"
    /\ readers[op[t].blk] = {t}
    /\ value[dataPtr[op[t].blk]] # InitialValue
    /\ \E u \in Threads : u # t /\ local[u] = value[dataPtr[op[t].blk]]
    /\ \E g \in ArcSlots : g # op[t].src /\ arc[g] = op[t].blk

\* the threads inside get_mut (lock_guard held), inside clone() (shared_lock
\* held), and inside the locked part of release(), on control block b
InGetMut(b) == {t \in Threads : pc[t] = "gm_locked" /\ op[t].blk = b}
InClone(b) ==
  {t \in Threads : pc[t] \in {"clone_copy", "clone_unlock"} /\ op[t].blk = b}
InRelease(b) == {t \in Threads : pc[t] = "rel_check" /\ op[t].blk = b}

\* C13: on one control block, at most one thread is inside get_mut's locked
\* section, and while one is, no thread is inside clone()'s locked section
\* nor inside the locked section of release(); the locked section of
\* release() excludes clone()'s too (clone() sections may overlap each other).
C13_LockedSectionsExclusive ==
  \A b \in Blocks :
    /\ Cardinality(InGetMut(b)) <= 1
    /\ InGetMut(b) # {} => (InClone(b) = {} /\ InRelease(b) = {})
    /\ InRelease(b) # {} => InClone(b) = {}

\* a thread is inside get_mut's locked section on a block that has another
\* handle, through which the other thread, idle, could clone
C13_Witness ==
  \E t, u \in Threads :
    /\ t # u
    /\ pc[t] = "gm_locked"
    /\ pc[u] = "idle"
    /\ \E g \in ArcSlots : g # op[t].src /\ arc[g] = op[t].blk /\ CanRead(g)

\* C14: with a and d on X and b and c on Y, thread 1 running a = b and
\* thread 2 running c = d, both assignments return in every interleaving, no
\* mutex stays locked, and from then on each block's ref_count is the number
\* of handles that reference it.
C14_CrossAssignReturns ==
  <>[](/\ \A t \in Threads : pc[t] = "idle"
       /\ \A b \in Blocks : writer[b] = 0
       /\ \A b \in Blocks :
            b <= nBlocks =>
              refCount[b] = Cardinality({h \in DOMAIN arc : arc[h] = b}))

\* one thread is inside its assignment holding both mutexes while the other
\* has called its assignment and waits for them
C14_Witness ==
  \E t, u \in Threads :
    /\ t # u
    /\ pc[t] = "asg_release"
    /\ pc[u] = "asg_check"
    /\ writer[arc[op[u].dst]] = t
    /\ writer[arc[op[u].src]] = t

\* C15: over Construct, Copy, Assign and Destroy, a block's ref_count is
\* never negative; when no operation is in flight it equals the number of
\* live handles on the block (so it is at least 1 while a handle exists); and
\* once it is 0 it never becomes positive again.
C15_StrongCount ==
  /\ [](\A b \in Blocks :
          b <= nBlocks =>
            /\ refCount[b] >= 0
            /\ Quiescent => refCount[b] = Cardinality(HandlesOn(b)))
  /\ [][\A b \in Blocks :
          (b <= nBlocks /\ refCount[b] = 0) => refCount'[b] <= 0]_vars

\* C17: a = b on two distinct handles of one control block returns: the
\* locking step neither blocks for ever nor throws, and the call leaves the
\* block's ref_count, the handle's block and the payload as they were.
C17_AssignSameBlock ==
  [][\A t \in Threads :
       (/\ pc[t] = "asg_check"
        /\ op[t].dst # op[t].src
        /\ arc[op[t].dst] = arc[op[t].src]
        /\ pc'[t] # "asg_check")
       => /\ pc'[t] \notin {"hung", "thrown"}
          /\ refCount'[arc[op[t].dst]] >= 1
          /\ destroyCount' = destroyCount]_vars

\* C18: no operation touches a control block that has been deleted (the
\* release() that deletes it has unlocked its mutex before), and no thread
\* locks a mutex it already owns.
C18_NoTouchAfterFree ==
  /\ uaf = {}
  /\ \A t \in Threads : pc[t] \notin {"hung", "thrown"}

\* the WeakArc handles whose control block observes the data of block b
WeakOn(b) == {w \in WeakSlots : warc[w] # 0 /\ wObs[warc[w]] = b}

\* C16: no step of a WeakArc operation (construction from an Arc, copy,
\* assignment, destruction, upgrade) changes the ref_count of a control block
\* that exists; and the release() that deletes a block destroys its payload
\* there and then, whatever WeakArcs observe it (only the shared_ptr local to
\* an upgrade() in flight holds it until that upgrade() returns).
C16_WeakLeavesStrongCount ==
  [][/\ ((weakVars' # weakVars)
           \/ \E t \in Threads : (pc[t] = "upg_ret") # (pc'[t] = "upg_ret"))
        => \A b \in Blocks : b <= nBlocks => refCount'[b] = refCount[b]
     /\ \A b \in Blocks :
          (/\ b <= nBlocks
           /\ ~freed[b]
           /\ freed'[b]
           /\ dataPtr[b] # 0
           /\ \A t \in Threads : ~(pc[t] = "upg_ret" /\ op[t].oth = b))
          => destroyCount'[dataPtr[b]] >= 1]_vars

\* the last Arc of a block has been destroyed, and the payload with it, while
\* a WeakArc that observes the block is alive
C16_Witness ==
  \E b \in Blocks :
    /\ freed[b]
    /\ dataPtr[b] # 0
    /\ destroyCount[dataPtr[b]] = 1
    /\ WeakOn(b) # {}
====
